---- MODULE Spec2Model ----
(***************************************************************************)
(* The resumable batch/checkpoint engine of scripts/build-embeddings.py:   *)
(* main(), load_checkpoint, save_checkpoint and write_binary_embeddings,   *)
(* together with the two files they keep on disk (the JSON checkpoint and  *)
(* the binary embedding file).  The process may be killed between any two  *)
(* steps and started again; the disk survives, the memory does not.        *)
(***************************************************************************)
EXTENDS Integers, Sequences, FiniteSets, TLC

\* ------------------------------------------------------------- bounds ----
\* Longest directory listing (number of image files in card-images/).
MaxScan == 2
\* Identifiers are 1..NumIds; two files may decode to the same identifier.
NumIds == 2
\* --batch-size ranges over 1..MaxBatch, --checkpoint-interval over 1..MaxInterval.
MaxBatch == 2
MaxInterval == 2

\* Longest listing, and most entries of the checkpoint file found at the
\* start, for the runs over identifiers of any length (SpecStored).
MaxNames == 1
MaxEntries == 2

\* Longest identifier handed to the codec (SpecCodec).
MaxIdLen == 5

\* Image sides are 1..MaxSide, plus the sides of the documented examples
\* (SpecCrop).
MaxSide == 5

\* The raw inference output has 1..MaxRows rows, 1..MaxSeq sequence positions
\* and entries 0..MaxVal (SpecOutput).
MaxRows == 1
MaxSeq == 2
MaxVal == 2

\* MODEL_CONFIG["embeddingDim"]
EMBEDDING_DIM == 2
\* norms = np.maximum(norms, 1e-12): the floor, in the unit of the entries of
\* the raw output (an entry k of the model is the number k * 1e-12 / NormFloor).
NormFloor == 2
\* MODEL_CONFIG["preprocessing"]["imageSize"]
IMAGE_SIZE == 4
\* if len(card_id_bytes) > 255: the length field of a record is one byte
MaxIdBytes == 255

Ids == 1..NumIds
\* A file on disk: missing, unparsable, or holding `data`.
Absent == [st |-> "absent", data |-> <<>>]
Corrupt == [st |-> "corrupt", data |-> <<>>]
Stored(d) == [st |-> "ok", data |-> d]

\* The binary file: missing, or its header (<<>> until written) and records.
NoOutput == [exists |-> FALSE, hdr |-> <<>>, recs |-> <<>>]

VARIABLES
    \* the environment and the command line, fixed for a behaviour
    all_cards,            \* scan_card_images(): sequence of <<card_id, path>>
    batch_size,           \* args.batch_size
    checkpoint_interval,  \* args.checkpoint_interval
    config_exists,        \* CONFIG_FILE.exists()
    dir_exists,           \* CARD_IMAGES_DIR.exists()
    codec,                \* an identifier on its way through the codec
    call,                 \* a call of preprocess_image or of the output
                          \* pipeline (pooling, normalization) in progress
    \* the disk
    ckptFile,             \* CHECKPOINT_FILE: Absent, Corrupt, or Stored(mapping)
    outFile,              \* OUTPUT_FILE: NoOutput, or its header and records
    \* the running process
    pc,
    embeddings,           \* dict in insertion order: sequence of [id, vec]
    to_process,
    i,
    valid_cards,
    failed,
    checkpoint_counter,
    card_ids,             \* write_binary_embeddings: ids still to be written
    warned,               \* ids printed as "Card ID too long, skipping"
    \* history, for stating the properties
    loaded,               \* what load_checkpoint returned in this run
    preprocessed,         \* paths handed to preprocess_image in this run
    inferCalls,           \* <<i, outcome>> of every session.run of this run
    merged,               \* paths whose row was stored in this run
    loadFailed,           \* paths whose preprocess_image raised in this run
    inferLost,            \* survivors of the batches whose session.run raised
    sinceFlush,           \* paths that survived preprocessing since the last
                          \* save_checkpoint of this run, or since its start
    ckpt0,                \* the checkpoint file before the first run
    restarted,            \* the process was killed and started again
    failedEver            \* some preprocessing or inference failed, in any run

vars == <<all_cards, batch_size, checkpoint_interval, config_exists, dir_exists,
          codec, call, ckptFile, outFile, pc, embeddings, to_process, i, valid_cards, failed,
          checkpoint_counter, card_ids, warned, loaded, preprocessed, inferCalls,
          merged, loadFailed, inferLost, sinceFlush, ckpt0, restarted,
          failedEver>>

env == <<all_cards, batch_size, checkpoint_interval, config_exists, dir_exists,
         codec, call, ckpt0>>
mem == <<embeddings, to_process, i, valid_cards, failed, checkpoint_counter,
         card_ids, warned>>
hist == <<loaded, preprocessed, inferCalls, merged, loadFailed, inferLost,
          sinceFlush>>

\* ------------------------------------------------- helpers: sequences ----
RECURSIVE SeqOfSet(_)
\* The elements of a finite set of integers in increasing order.
SeqOfSet(S) ==
    IF S = {} THEN <<>>
    ELSE LET m == CHOOSE x \in S : \A y \in S : x <= y
         IN  <<m>> \o SeqOfSet(S \ {m})

Min(a, b) == IF a < b THEN a ELSE b

\* Mutant: the slice takes one element more.
SliceOneMore(s, a, n) == SubSeq(s, a + 1, IF a + n + 1 < Len(s) THEN a + n + 1 ELSE Len(s))

\* Python's seq[a : a + n] with 0-based a.
Slice(s, a, n) == SubSeq(s, a + 1, Min(a + n, Len(s)))

\* All sequences over S of length 0..n.
SeqsUpTo(S, n) == UNION {[1..k -> S] : k \in 0..n}

\* The concatenation of a sequence of sequences.
RECURSIVE Concat(_)
Concat(ss) == IF ss = <<>> THEN <<>> ELSE Head(ss) \o Concat(Tail(ss))

\* ---------------------------------------------------- the dict (Python) ----
\* A Python dict keeps insertion order; assigning to an existing key keeps
\* the key's position and replaces its value.
Keys(d) == {d[k].id : k \in DOMAIN d}

Get(d, id) == d[CHOOSE k \in DOMAIN d : d[k].id = id].vec

\* Mutant: the assignment rebinds the mapping to the one new entry.
DictSetRebind(d, id, v) == <<[id |-> id, vec |-> v]>>

\* Mutant: an existing key keeps its value (dict.setdefault).
DictSetDefault(d, id, v) ==
    IF id \in Keys(d) THEN d ELSE Append(d, [id |-> id, vec |-> v])

DictSet(d, id, v) ==
    IF id \in Keys(d)
    THEN [k \in DOMAIN d |-> IF d[k].id = id THEN [id |-> id, vec |-> v] ELSE d[k]]
    ELSE Append(d, [id |-> id, vec |-> v])

\* ------------------------------------------------- the checkpoint text ----
\* The JSON text of a mapping, as its tokens: an object whose members are a
\* key and an array of numbers, in the order of the dict.
Token(t, v) == [t |-> t, v |-> v]

\* json.dump(embeddings, f)
json_dump(d) ==
    <<Token("{", 0)>>
        \o Concat([k \in DOMAIN d |->
                     <<Token("key", d[k].id), Token("[", 0)>>
                         \o [j \in DOMAIN d[k].vec |-> Token("num", d[k].vec[j])]
                         \o <<Token("]", 0)>>])
        \o <<Token("}", 0)>>

\* The members of an object from position pos on, added to the dict acc: a
\* key that occurs again replaces the value and keeps the position.
RECURSIVE Members(_, _, _)
Members(text, pos, acc) ==
    IF text[pos].t # "key" THEN acc
    ELSE LET close == CHOOSE c \in (pos + 1)..Len(text) :
                         /\ text[c].t = "]"
                         /\ \A b \in (pos + 1)..(c - 1) : text[b].t # "]"
             vec == [j \in 1..(close - pos - 2) |-> text[pos + 1 + j].v]
         IN  Members(text, close + 1, DictSet(acc, text[pos].v, vec))

\* Mutant: the members are read into the dict last one first.
RECURSIVE MembersReversed(_, _, _)
MembersReversed(text, pos, acc) ==
    IF text[pos].t # "key" THEN acc
    ELSE LET close == CHOOSE c \in (pos + 1)..Len(text) :
                         /\ text[c].t = "]"
                         /\ \A b \in (pos + 1)..(c - 1) : text[b].t # "]"
             vec == [j \in 1..(close - pos - 2) |-> text[pos + 1 + j].v]
         IN  MembersReversed(text, close + 1, acc)
                 \o <<[id |-> text[pos].v, vec |-> vec]>>

\* Mutant of json_load.
json_loadReversed(text) == MembersReversed(text, 2, <<>>)

\* json.load(f)
json_load(text) == Members(text, 2, <<>>)

\* ------------------------------------------------------ the inference ----
\* The row that apply_normalization(apply_pooling(session.run(...))) gives for
\* the image at `path`: a vector of EMBEDDING_DIM numbers, one per image.
OutputRow(path) == [d \in 1..EMBEDDING_DIM |-> 10 * path + d]

\* A vector found in a checkpoint file left by an earlier invocation.
CheckpointedVec(id) == [d \in 1..EMBEDDING_DIM |-> 100 * id + d]

\* for j, card_id in enumerate(valid_cards): embeddings[card_id] = outputs[j]
RECURSIVE Merge(_, _)
Merge(d, valid) ==
    IF valid = <<>> THEN d
    ELSE Merge(DictSet(d, Head(valid)[1], OutputRow(Head(valid)[2])), Tail(valid))

\* ------------------------------------------------------------- the scan ----
\* scan_card_images: one entry per image file, in directory order; the path
\* of the k-th file is k, its identifier is filename_to_card_id(stem).
ScanOf(ids) == [k \in DOMAIN ids |-> <<ids[k], k>>]

\* Mutant: the work list is the whole scan, checkpointed or not.
UnprocessedNoFilter(cards, processed_ids) == cards

\* to_process = [(cid, path) for cid, path in all_cards if cid not in processed_ids]
Unprocessed(cards, processed_ids) ==
    SelectSeq(cards, LAMBDA c : c[1] \notin processed_ids)

\* A checkpoint file written by json.dump, by the mapping whose text it holds.
DictOver(S) ==
    LET s == SeqOfSet(S)
    IN  [k \in DOMAIN s |-> [id |-> s[k], vec |-> CheckpointedVec(s[k])]]

InitialCheckpoints == {Absent} \cup {Stored(DictOver(S)) : S \in SUBSET Ids}

\* ----------------------------------------------------------------- Init ----
\* No identifier is on its way through the codec.
CodecIdle == [step |-> "idle", id |-> <<>>, filename |-> <<>>, decoded |-> <<>>]

\* No call is being followed step by step.
NoCall == [step |-> "idle"]

\* The process as the interpreter starts it, before the first statement.
Fresh ==
    /\ codec = CodecIdle
    /\ call = NoCall
    /\ ckpt0 = ckptFile
    /\ outFile = NoOutput
    /\ pc = "config"
    /\ embeddings = <<>>
    /\ to_process = <<>>
    /\ i = 0
    /\ valid_cards = <<>>
    /\ failed = 0
    /\ checkpoint_counter = 0
    /\ card_ids = <<>>
    /\ warned = {}
    /\ loaded = <<>>
    /\ preprocessed = {}
    /\ inferCalls = {}
    /\ merged = {}
    /\ loadFailed = {}
    /\ inferLost = {}
    /\ sinceFlush = {}
    /\ restarted = FALSE
    /\ failedEver = FALSE

\* A missing card-images directory lists nothing.
Init ==
    /\ config_exists \in BOOLEAN
    /\ dir_exists \in BOOLEAN
    /\ all_cards \in {ScanOf(ids) : ids \in SeqsUpTo(Ids, MaxScan)}
    /\ ~dir_exists => all_cards = <<>>
    /\ batch_size \in 1..MaxBatch
    /\ checkpoint_interval \in 1..MaxInterval
    /\ ckptFile \in InitialCheckpoints
    /\ Fresh

\* ------------------------------------------------------------- main() ----
\* MODEL_CONFIG = load_config() at import: sys.exit(1) without the file
LoadConfig ==
    /\ pc = "config"
    /\ pc' = IF config_exists THEN "scan" ELSE "aborted"
    /\ UNCHANGED <<env, ckptFile, outFile, mem, hist, restarted, failedEver>>

\* all_cards = scan_card_images(), which raises FileNotFoundError without the
\* directory; if not all_cards: sys.exit(1)
Scan ==
    /\ pc = "scan"
    /\ pc' = IF ~dir_exists \/ all_cards = <<>> THEN "aborted" ELSE "load"
    /\ UNCHANGED <<env, ckptFile, outFile, mem, hist, restarted, failedEver>>

\* Mutant: with nothing to process main skips the write and cleans up.
AfterLoadSkipWrite(work) == IF work = <<>> THEN "unlink" ELSE "batch"

\* Where main goes once the work list is known.
AfterLoad(work) == IF work = <<>> THEN "write" ELSE "batch"

\* Mutant: the checkpoint file is never read.
load_checkpointEmpty(file) == <<>>

\* load_checkpoint: {} when CHECKPOINT_FILE does not exist, else json.load of
\* the text json.dump left in it.
load_checkpoint(file) ==
    IF file = Absent THEN <<>> ELSE json_load(json_dump(file.data))

\* embeddings = load_checkpoint(); processed_ids; to_process
LoadCheckpoint ==
    /\ pc = "load"
    /\ ckptFile # Corrupt
    /\ LET data == load_checkpoint(ckptFile)
           work == Unprocessed(all_cards, Keys(data))
       IN  /\ embeddings' = data
           /\ loaded' = data
           /\ to_process' = work
           /\ pc' = AfterLoad(work)
    /\ i' = 0
    /\ failed' = 0
    /\ checkpoint_counter' = 0
    /\ UNCHANGED <<env, ckptFile, outFile, valid_cards, card_ids, warned,
                   preprocessed, inferCalls, merged, loadFailed, inferLost,
                   sinceFlush, restarted, failedEver>>

\* Mutant: an unreadable checkpoint is taken for an empty one.
LoadCorruptAsEmpty ==
    /\ pc = "load"
    /\ ckptFile = Corrupt
    /\ embeddings' = <<>>
    /\ to_process' = all_cards
    /\ pc' = "batch"
    /\ UNCHANGED <<env, ckptFile, outFile, i, valid_cards, failed,
                   checkpoint_counter, card_ids, warned, hist, restarted,
                   failedEver>>

\* json.load raises on a truncated file: the run ends with a traceback.
LoadCorrupt ==
    /\ pc = "load"
    /\ ckptFile = Corrupt
    /\ pc' = "aborted"
    /\ UNCHANGED <<env, ckptFile, outFile, mem, hist, restarted, failedEver>>

\* Mutant: the loop is left before the work list is exhausted.
LoopEndEarly ==
    /\ pc = "batch"
    /\ pc' = "write"
    /\ UNCHANGED <<env, ckptFile, outFile, mem, hist, restarted, failedEver>>

\* for i in range(0, len(to_process), batch_size): exhausted
LoopEnd ==
    /\ pc = "batch"
    /\ i >= Len(to_process)
    /\ pc' = "write"
    /\ UNCHANGED <<env, ckptFile, outFile, mem, hist, restarted, failedEver>>

\* Mutant: one failing item drops its whole batch.
SurvivorsAllOrNothing(batch, bad) == IF bad = {} THEN batch ELSE <<>>

\* The survivors of a batch, in batch order.
Survivors(batch, bad) == SelectSeq(batch, LAMBDA c : c[2] \notin bad)

\* Mutant: a batch without a survivor goes on to inference.
PreprocessBatchNoSkip ==
    /\ pc = "batch"
    /\ i < Len(to_process)
    /\ LET batch == Slice(to_process, i, batch_size)
           paths == {batch[k][2] : k \in DOMAIN batch}
       IN  \E bad \in SUBSET paths :
             LET valid == Survivors(batch, bad)
             IN  /\ valid_cards' = valid
                 /\ failed' = failed + Cardinality(bad)
                 /\ failedEver' = (failedEver \/ bad # {})
                 /\ preprocessed' = preprocessed \cup paths
                 /\ loadFailed' = loadFailed \cup bad
                 /\ sinceFlush' = sinceFlush \cup (paths \ bad)
                 /\ pc' = "infer"
                 /\ i' = i
    /\ UNCHANGED <<env, ckptFile, outFile, embeddings, to_process,
                   checkpoint_counter, card_ids, warned, loaded, inferCalls,
                   merged, inferLost, restarted>>

\* batch = to_process[i : i + batch_size]; preprocess every item of it, the
\* items of `bad` raising; `continue` when none survives.
PreprocessBatch ==
    /\ pc = "batch"
    /\ i < Len(to_process)
    /\ LET batch == Slice(to_process, i, batch_size)
           paths == {batch[k][2] : k \in DOMAIN batch}
       IN  \E bad \in SUBSET paths :
             LET valid == Survivors(batch, bad)
             IN  /\ valid_cards' = valid
                 /\ failed' = failed + Cardinality(bad)
                 /\ failedEver' = (failedEver \/ bad # {})
                 /\ preprocessed' = preprocessed \cup paths
                 /\ loadFailed' = loadFailed \cup bad
                 /\ sinceFlush' = sinceFlush \cup (paths \ bad)
                 /\ IF valid = <<>>
                    THEN pc' = "batch" /\ i' = i + batch_size
                    ELSE pc' = "infer" /\ i' = i
    /\ UNCHANGED <<env, ckptFile, outFile, embeddings, to_process,
                   checkpoint_counter, card_ids, warned, loaded, inferCalls,
                   merged, inferLost, restarted>>

\* session.run succeeded; pooling, normalization, then the results are stored.
InferOk ==
    /\ pc = "infer"
    /\ embeddings' = Merge(embeddings, valid_cards)
    /\ inferCalls' = inferCalls \cup {<<i, "ok">>}
    /\ merged' = merged \cup {valid_cards[k][2] : k \in DOMAIN valid_cards}
    /\ pc' = "checkpoint"
    /\ UNCHANGED <<env, ckptFile, outFile, to_process, i, valid_cards, failed,
                   checkpoint_counter, card_ids, warned, loaded, preprocessed,
                   loadFailed, inferLost, sinceFlush, restarted, failedEver>>

\* Mutant: a failed batch counts as one failure.
InferFailCountOne(valid) == 1

\* What the except branch adds to `failed`.
InferFailCount(valid) == Len(valid)

\* Mutant: a batch whose inference raises ends the run.
InferFailAborts ==
    /\ pc = "infer"
    /\ failedEver' = TRUE
    /\ pc' = "aborted"
    /\ UNCHANGED <<env, ckptFile, outFile, mem, hist, restarted>>

\* session.run raised: except Exception: failed += len(valid_cards)
InferFail ==
    /\ pc = "infer"
    /\ failed' = failed + InferFailCount(valid_cards)
    /\ failedEver' = TRUE
    /\ inferCalls' = inferCalls \cup {<<i, "failed">>}
    /\ inferLost' = inferLost \cup {valid_cards[k][2] : k \in DOMAIN valid_cards}
    /\ pc' = "checkpoint"
    /\ UNCHANGED <<env, ckptFile, outFile, embeddings, to_process, i, valid_cards,
                   checkpoint_counter, card_ids, warned, loaded, preprocessed,
                   merged, loadFailed, sinceFlush, restarted>>

\* Mutant: the flush waits until the threshold is exceeded.
FlushDueStrict(counter, interval) == counter > interval

\* if checkpoint_counter >= args.checkpoint_interval
FlushDue(counter, interval) == counter >= interval

\* checkpoint_counter += len(valid_cards); the test for a flush
CheckpointCheck ==
    /\ pc = "checkpoint"
    /\ LET c == checkpoint_counter + Len(valid_cards)
       IN  /\ checkpoint_counter' = c
           /\ IF FlushDue(c, checkpoint_interval)
              THEN pc' = "save" /\ i' = i
              ELSE pc' = "batch" /\ i' = i + batch_size
    /\ UNCHANGED <<env, ckptFile, outFile, embeddings, to_process, valid_cards,
                   failed, card_ids, warned, hist, restarted, failedEver>>

\* The checkpoint file right after open(CHECKPOINT_FILE, "w"): truncated in
\* place, and not valid JSON until json.dump has written all of it.
OpenedForDump(old) == Corrupt

\* save_checkpoint: with open(CHECKPOINT_FILE, "w") as f
SaveOpen ==
    /\ pc = "save"
    /\ ckptFile' = OpenedForDump(ckptFile)
    /\ pc' = "dump"
    /\ UNCHANGED <<env, outFile, mem, hist, restarted, failedEver>>

\* Mutant: the counter keeps its value over a flush.
SaveDumpKeepsCounter ==
    /\ pc = "dump"
    /\ ckptFile' = Stored(embeddings)
    /\ sinceFlush' = {}
    /\ i' = i + batch_size
    /\ pc' = "batch"
    /\ UNCHANGED <<env, outFile, embeddings, to_process, valid_cards, failed,
                   checkpoint_counter, card_ids, warned, loaded, preprocessed,
                   inferCalls, merged, loadFailed, inferLost, restarted,
                   failedEver>>

\* save_checkpoint: json.dump(embeddings, f) and the close; counter reset
SaveDump ==
    /\ pc = "dump"
    /\ ckptFile' = Stored(embeddings)
    /\ checkpoint_counter' = 0
    /\ sinceFlush' = {}
    /\ i' = i + batch_size
    /\ pc' = "batch"
    /\ UNCHANGED <<env, outFile, embeddings, to_process, valid_cards, failed,
                   card_ids, warned, loaded, preprocessed, inferCalls, merged,
                   loadFailed, inferLost, restarted, failedEver>>

\* len(card_id.encode("utf-8")): identifier k stands for a name of k bytes.
ByteLen(id) == id

\* Mutant: an identifier of exactly 255 bytes is skipped too.
WritableBelow(d) ==
    LET ks == [k \in DOMAIN d |-> d[k].id]
    IN  SelectSeq(ks, LAMBDA id : ByteLen(id) < MaxIdBytes)

\* Mutant: the records are written last key first.
WritableReversed(d) ==
    LET ks == [k \in DOMAIN d |-> d[Len(d) + 1 - k].id]
    IN  SelectSeq(ks, LAMBDA id : ByteLen(id) <= MaxIdBytes)

\* write_binary_embeddings: the identifiers that fit the 1-byte length field
Writable(d) ==
    LET ks == [k \in DOMAIN d |-> d[k].id]
    IN  SelectSeq(ks, LAMBDA id : ByteLen(id) <= MaxIdBytes)

\* write_binary_embeddings: the identifiers the first loop warns about
Skipped(d) == {id \in Keys(d) : ByteLen(id) > MaxIdBytes}

\* write_binary_embeddings: card_ids; open(output_path, "wb") truncates
WriteOpen ==
    /\ pc = "write"
    /\ card_ids' = Writable(embeddings)
    /\ warned' = Skipped(embeddings)
    /\ outFile' = [exists |-> TRUE, hdr |-> <<>>, recs |-> <<>>]
    /\ pc' = "header"
    /\ UNCHANGED <<env, ckptFile, embeddings, to_process, i, valid_cards, failed,
                   checkpoint_counter, hist, restarted, failedEver>>

\* Mutant: the header counts the whole mapping.
HeaderFieldsAll == <<Len(embeddings), EMBEDDING_DIM>>

\* The two header fields: len(card_ids) and EMBEDDING_DIM.
HeaderFields == <<Len(card_ids), EMBEDDING_DIM>>

\* struct.pack("<I", len(card_ids)), struct.pack("<I", EMBEDDING_DIM)
WriteHeader ==
    /\ pc = "header"
    /\ outFile' = [outFile EXCEPT !.hdr = HeaderFields]
    /\ pc' = "records"
    /\ UNCHANGED <<env, ckptFile, mem, hist, restarted, failedEver>>

\* one record: length byte, identifier bytes, the floats of the vector
WriteRecord ==
    /\ pc = "records"
    /\ card_ids # <<>>
    /\ LET id == Head(card_ids)
       IN  outFile' = [outFile EXCEPT !.recs =
                          Append(@, <<ByteLen(id), id, Get(embeddings, id)>>)]
    /\ card_ids' = Tail(card_ids)
    /\ UNCHANGED <<env, ckptFile, pc, embeddings, to_process, i, valid_cards,
                   failed, checkpoint_counter, warned, hist, restarted, failedEver>>

\* the with block ends: the file is closed, write_binary_embeddings returns
WriteClose ==
    /\ pc = "records"
    /\ card_ids = <<>>
    /\ pc' = "unlink"
    /\ UNCHANGED <<env, ckptFile, outFile, mem, hist, restarted, failedEver>>

\* a write raises (OSError, struct.error): nothing catches it, main ends with
\* a traceback and the file stays as far as it was written
WriteFail ==
    /\ pc \in {"header", "records"}
    /\ pc' = "aborted"
    /\ failedEver' = TRUE
    /\ UNCHANGED <<env, ckptFile, outFile, mem, hist, restarted>>

\* if CHECKPOINT_FILE.exists(): CHECKPOINT_FILE.unlink()
Unlink ==
    /\ pc = "unlink"
    /\ ckptFile' = Absent
    /\ pc' = "done"
    /\ UNCHANGED <<env, outFile, mem, hist, restarted, failedEver>>

Running == pc \notin {"done", "aborted", "crashed"}

\* The process is killed: the memory is gone, the disk stays as it is.
Crash ==
    /\ Running
    /\ pc' = "crashed"
    /\ embeddings' = <<>>
    /\ to_process' = <<>>
    /\ i' = 0
    /\ valid_cards' = <<>>
    /\ failed' = 0
    /\ checkpoint_counter' = 0
    /\ card_ids' = <<>>
    /\ warned' = {}
    /\ UNCHANGED <<env, ckptFile, outFile, hist, restarted, failedEver>>

\* The script is invoked again on the same directory.
Restart ==
    /\ pc = "crashed"
    /\ pc' = "config"
    /\ restarted' = TRUE
    /\ loaded' = <<>>
    /\ preprocessed' = {}
    /\ inferCalls' = {}
    /\ merged' = {}
    /\ loadFailed' = {}
    /\ inferLost' = {}
    /\ sinceFlush' = {}
    /\ UNCHANGED <<env, ckptFile, outFile, mem, failedEver>>

Next ==
    \/ LoadConfig
    \/ Scan
    \/ LoadCheckpoint
    \/ LoadCorrupt
    \/ LoopEnd
    \/ PreprocessBatch
    \/ InferOk
    \/ InferFail
    \/ CheckpointCheck
    \/ SaveOpen
    \/ SaveDump
    \/ WriteOpen
    \/ WriteHeader
    \/ WriteRecord
    \/ WriteClose
    \/ WriteFail
    \/ Unlink
    \/ Crash
    \/ Restart

Spec == Init /\ [][Next]_vars

\* The steps main takes by itself: nobody kills the process, the disk takes
\* every write, and so no checkpoint file is ever found truncated.
NextAlone ==
    \/ LoadConfig
    \/ Scan
    \/ LoadCheckpoint
    \/ LoopEnd
    \/ PreprocessBatch
    \/ InferOk
    \/ InferFail
    \/ CheckpointCheck
    \/ SaveOpen
    \/ SaveDump
    \/ WriteOpen
    \/ WriteHeader
    \/ WriteRecord
    \/ WriteClose
    \/ Unlink

\* An undisturbed process executes its next statement.
SpecAlone == Init /\ [][NextAlone]_vars /\ WF_vars(NextAlone)

\* ------------------------------------------------ the identifier codec ----
\* A string is the sequence of its characters.
\* FILESYSTEM_CHAR_MAP, in the order of the dict literal.
FILESYSTEM_CHAR_MAP ==
    << << <<"!">>, <<"_", "e", "x", "c", "l", "_">> >>,
       << <<"?">>, <<"_", "q", "m", "a", "r", "k", "_">> >>,
       << <<"*">>, <<"_", "s", "t", "a", "r", "_">> >>,
       << <<"<">>, <<"_", "l", "t", "_">> >>,
       << <<">">>, <<"_", "g", "t", "_">> >>,
       << <<"\"">>, <<"_", "q", "u", "o", "t", "_">> >>,
       << <<"|">>, <<"_", "p", "i", "p", "e", "_">> >>,
       << <<"\\">>, <<"_", "b", "s", "l", "a", "s", "h", "_">> >>,
       << <<"/">>, <<"_", "s", "l", "a", "s", "h", "_">> >>,
       << <<":">>, <<"_", "c", "o", "l", "o", "n", "_">> >>,
       << <<"%">>, <<"_", "p", "c", "t", "_">> >> >>

\* FILESYSTEM_REVERSE_MAP of build-embeddings.py: the same pairs, same order.
FILESYSTEM_REVERSE_MAP ==
    [k \in DOMAIN FILESYSTEM_CHAR_MAP |->
        <<FILESYSTEM_CHAR_MAP[k][2], FILESYSTEM_CHAR_MAP[k][1]>>]

RECURSIVE Replace(_, _, _)
\* str.replace(old, new): every non-overlapping occurrence, from the left.
Replace(s, old, new) ==
    IF Len(s) < Len(old) THEN s
    ELSE IF SubSeq(s, 1, Len(old)) = old
    THEN new \o Replace(SubSeq(s, Len(old) + 1, Len(s)), old, new)
    ELSE <<Head(s)>> \o Replace(Tail(s), old, new)

RECURSIVE ReplaceAll(_, _, _)
\* for old, new in table.items(): result = result.replace(old, new), from
\* the k-th pair on.
ReplaceAll(s, table, k) ==
    IF k > Len(table) THEN s
    ELSE ReplaceAll(Replace(s, table[k][1], table[k][2]), table, k + 1)

\* The hexadecimal digits among the characters of the model.
HexDigits == {"3", "F"}

\* The character unquote gives for %h1h2: the ASCII character of that code,
\* or U+FFFD for a byte that is not UTF-8 by itself (errors="replace").
Unescaped(h1, h2) ==
    CASE h1 = "3" /\ h2 = "3" -> "3"
      [] h1 = "3" /\ h2 = "F" -> "?"
      [] OTHER -> "U+FFFD"

RECURSIVE unquote(_)
\* urllib.parse.unquote: every % followed by two hexadecimal digits becomes
\* the character of that code; any other % stays.
unquote(s) ==
    IF s = <<>> THEN <<>>
    ELSE IF Len(s) >= 3 /\ s[1] = "%" /\ s[2] \in HexDigits /\ s[3] \in HexDigits
    THEN <<Unescaped(s[2], s[3])>> \o unquote(SubSeq(s, 4, Len(s)))
    ELSE <<Head(s)>> \o unquote(Tail(s))

\* Mutant: the substitutions are applied to the identifier as given.
card_id_to_filenameRaw(card_id) == ReplaceAll(card_id, FILESYSTEM_CHAR_MAP, 1)

\* finetune_model.py: unquote, then the substitutions in table order.
card_id_to_filename(card_id) == ReplaceAll(unquote(card_id), FILESYSTEM_CHAR_MAP, 1)

\* build-embeddings.py: the reverse substitutions in table order.
filename_to_card_id(filename) == ReplaceAll(filename, FILESYSTEM_REVERSE_MAP, 1)

\* Characters of the token table (? %) and characters that need no
\* placeholder (letters and digits).
CodecChars == {"?", "%", "l", "t", "3", "F"}
CodecIds == SeqsUpTo(CodecChars, MaxIdLen)

\* The engine's variables while only the codec is exercised.
EngineIdle ==
    /\ config_exists = TRUE
    /\ dir_exists = TRUE
    /\ all_cards = <<>>
    /\ batch_size = 1
    /\ checkpoint_interval = 1
    /\ ckptFile = Absent
    /\ ckpt0 = Absent
    /\ outFile = NoOutput
    /\ pc = "idle"
    /\ embeddings = <<>>
    /\ to_process = <<>>
    /\ i = 0
    /\ valid_cards = <<>>
    /\ failed = 0
    /\ checkpoint_counter = 0
    /\ card_ids = <<>>
    /\ warned = {}
    /\ loaded = <<>>
    /\ preprocessed = {}
    /\ inferCalls = {}
    /\ merged = {}
    /\ loadFailed = {}
    /\ inferLost = {}
    /\ sinceFlush = {}
    /\ restarted = FALSE
    /\ failedEver = FALSE

engine == <<all_cards, batch_size, checkpoint_interval, config_exists, dir_exists,
            call, ckpt0, ckptFile, outFile, pc, mem, hist, restarted, failedEver>>

InitCodec ==
    /\ codec \in {[step |-> "id", id |-> s, filename |-> <<>>, decoded |-> <<>>] :
                     s \in CodecIds}
    /\ call = NoCall
    /\ EngineIdle

\* The image of a card is saved under card_id_to_filename(card_id).
Encode ==
    /\ codec.step = "id"
    /\ codec' = [codec EXCEPT !.step = "encoded",
                              !.filename = card_id_to_filename(codec.id)]
    /\ UNCHANGED engine

\* The scan reads the identifier back: filename_to_card_id(file.stem).
Decode ==
    /\ codec.step = "encoded"
    /\ codec' = [codec EXCEPT !.step = "decoded",
                              !.decoded = filename_to_card_id(codec.filename)]
    /\ UNCHANGED engine

NextCodec == Encode \/ Decode

SpecCodec == InitCodec /\ [][NextCodec]_vars

\* ------------------------------------------------ preprocess_image ----
\* MODEL_CONFIG["preprocessing"].get("cropMethod", "center"); any value other
\* than "top" and "center" takes the else branch.
CropMethods == {"top", "center", "none"}
Sides == (1..MaxSide) \cup {200, 300}

\* Mutant: "top" crops like "center".
CropBoxCentered(method, width, height) ==
    LET square_size == Min(width, height)
        left == (width - square_size) \div 2
        top == (height - square_size) \div 2
    IN  <<left, top, left + square_size, top + square_size>>

\* The box handed to img.crop: (left, top, left + square_size, top + square_size).
CropBox(method, width, height) ==
    LET square_size == Min(width, height)
        left == (width - square_size) \div 2
        top == IF method = "top" THEN 0 ELSE (height - square_size) \div 2
    IN  <<left, top, left + square_size, top + square_size>>

\* The engine and the codec while a single call is followed.
OnlyCall ==
    /\ codec = CodecIdle
    /\ EngineIdle

InitCrop ==
    /\ call \in {[step |-> "opened", method |-> m, width |-> w, height |-> h,
                   cropped |-> FALSE, box |-> <<>>, size |-> <<w, h>>] :
                     m \in CropMethods, w \in Sides, h \in Sides}
    /\ OnlyCall

others == <<all_cards, batch_size, checkpoint_interval, config_exists, dir_exists,
            codec, ckpt0, ckptFile, outFile, pc, mem, hist, restarted, failedEver>>

\* Step 1: img = img.crop(box) for "top" and "center", nothing otherwise.
Crop ==
    /\ call.step = "opened"
    /\ IF call.method \in {"top", "center"}
       THEN LET box == CropBox(call.method, call.width, call.height)
            IN  call' = [call EXCEPT !.step = "cropped", !.cropped = TRUE,
                                     !.box = box,
                                     !.size = <<box[3] - box[1], box[4] - box[2]>>]
       ELSE call' = [call EXCEPT !.step = "cropped"]
    /\ UNCHANGED others

\* Step 2: img.resize((IMAGE_SIZE, IMAGE_SIZE), BILINEAR)
Resize ==
    /\ call.step = "cropped"
    /\ call' = [call EXCEPT !.step = "resized", !.size = <<IMAGE_SIZE, IMAGE_SIZE>>]
    /\ UNCHANGED others

NextCrop == Crop \/ Resize

SpecCrop == InitCrop /\ [][NextCrop]_vars

\* ------------------------------------- the output pipeline (numbers) ----
RECURSIVE GCD(_, _)
GCD(a, b) == IF b = 0 THEN a ELSE GCD(b, a % b)

\* Exact arithmetic on the non-negative rationals n/d, kept in lowest terms.
Rat(n, d) == IF n = 0 THEN [n |-> 0, d |-> 1]
             ELSE [n |-> n \div GCD(n, d), d |-> d \div GCD(n, d)]
RatAdd(a, b) == Rat(a.n * b.d + b.n * a.d, a.d * b.d)
RatMul(a, b) == Rat(a.n * b.n, a.d * b.d)
RatMax(a, b) == IF a.n * b.d >= b.n * a.d THEN a ELSE b
One == Rat(1, 1)

\* An entry of an array: the number v / sqrt(q), v and q rationals, q > 0.
\* Entries of the raw output have q = 1; a division by a Euclidean norm
\* multiplies q by the square of the norm.
Entry(x) == [v |-> Rat(x, 1), q |-> One]

RECURSIVE SumOver(_, _)
\* The sum of f[k] over the indices k of the finite set S.
SumOver(f, S) ==
    IF S = {} THEN Rat(0, 1)
    ELSE LET k == CHOOSE x \in S : TRUE
         IN  RatAdd(f[k], SumOver(f, S \ {k}))

\* An array: its shape and its entries, data[<<b, d>>] or data[<<b, s, d>>].
Array(shape, data) == [shape |-> shape, data |-> data]
Rows(a) == 1..a.shape[1]
Cols(a) == 1..a.shape[Len(a.shape)]
Positions(a) == 1..a.shape[2]

\* Mutant: the first sequence position, whatever the pooling.
apply_poolingFirst(outputs, pooling) ==
    IF Len(outputs.shape) = 3
    THEN Array(<<outputs.shape[1], outputs.shape[3]>>,
               [x \in Rows(outputs) \X Cols(outputs) |->
                  outputs.data[<<x[1], 1, x[2]>>]])
    ELSE outputs

\* apply_pooling: outputs.mean(axis=1) for "mean" on a 3-axis output,
\* outputs[:, 0, :] for any other pooling on a 3-axis output, else outputs.
\* The entries averaged over axis 1 share their q.
apply_pooling(outputs, pooling) ==
    IF pooling = "mean" /\ Len(outputs.shape) = 3
    THEN Array(<<outputs.shape[1], outputs.shape[3]>>,
               [x \in Rows(outputs) \X Cols(outputs) |->
                  [v |-> RatMul(SumOver([s \in Positions(outputs) |->
                                           outputs.data[<<x[1], s, x[2]>>].v],
                                        Positions(outputs)),
                                Rat(1, outputs.shape[2])),
                   q |-> outputs.data[<<x[1], 1, x[2]>>].q]])
    ELSE IF Len(outputs.shape) = 3
    THEN Array(<<outputs.shape[1], outputs.shape[3]>>,
               [x \in Rows(outputs) \X Cols(outputs) |->
                  outputs.data[<<x[1], 1, x[2]>>]])
    ELSE outputs

\* The square of the entry x, a rational: v * v / q.
Square(x) == RatMul(RatMul(x.v, x.v), Rat(x.q.d, x.q.n))

\* Mutant: the floor is added to the norm instead of bounding it from below.
FlooredNormSqAdded(xs) ==
    RatAdd(SumOver([k \in DOMAIN xs |-> Square(xs[k])], DOMAIN xs),
           Rat(NormFloor * NormFloor, 1))

\* The square of np.maximum(np.linalg.norm(xs), 1e-12): the larger of the sum
\* of the squares and the floor squared.
FlooredNormSq(xs) ==
    RatMax(SumOver([k \in DOMAIN xs |-> Square(xs[k])], DOMAIN xs),
           Rat(NormFloor * NormFloor, 1))

\* x / norm, for the square of the norm.
Divided(x, normSq) == [v |-> x.v, q |-> RatMul(x.q, normSq)]

\* apply_normalization: outputs / np.maximum(norm over axis 1, 1e-12) when
\* normalize is set.  Axis 1 of a (batch, dim) array is dim; axis 1 of a
\* (batch, sequence, dim) array is the sequence.
apply_normalization(outputs, normalize) ==
    IF ~normalize THEN outputs
    ELSE IF Len(outputs.shape) = 2
    THEN Array(outputs.shape,
               [x \in Rows(outputs) \X Cols(outputs) |->
                  Divided(outputs.data[x],
                          FlooredNormSq([d \in Cols(outputs) |->
                                           outputs.data[<<x[1], d>>]]))])
    ELSE Array(outputs.shape,
               [x \in Rows(outputs) \X Positions(outputs) \X Cols(outputs) |->
                  Divided(outputs.data[x],
                          FlooredNormSq([t \in Positions(outputs) |->
                                           outputs.data[<<x[1], t, x[3]>>]]))])

\* Row b of an output whose first row holds the integer x at some place
\* holds (x + b - 1) % (MaxVal + 1) at that place.
RowOf(x, b) == Entry((x + b - 1) % (MaxVal + 1))

\* The raw outputs session.run can return: (batch, dim) and
\* (batch, sequence, dim) arrays.
RawOutputs ==
    {Array(<<r, EMBEDDING_DIM>>,
           [x \in (1..r) \X (1..EMBEDDING_DIM) |-> RowOf(row[x[2]], x[1])]) :
        r \in 1..MaxRows, row \in [1..EMBEDDING_DIM -> 0..MaxVal]}
    \cup UNION {
       {Array(<<r, l, EMBEDDING_DIM>>,
              [x \in (1..r) \X (1..l) \X (1..EMBEDDING_DIM) |->
                  RowOf(row[x[2]][x[3]], x[1])]) :
           r \in 1..MaxRows, row \in [1..l -> [1..EMBEDDING_DIM -> 0..MaxVal]]} :
       l \in 1..MaxSeq}

\* POOLING and NORMALIZE of the configuration; any pooling other than "mean"
\* behaves like "none".
InitOutput ==
    /\ call \in {[step |-> "raw", pooling |-> p, normalize |-> n, raw |-> t,
                   outputs |-> t, stored |-> <<>>] :
                     p \in {"mean", "none"}, n \in BOOLEAN, t \in RawOutputs}
    /\ OnlyCall

\* Mutant: the raw output is normalized before it is pooled.
PoolNormalized ==
    /\ call.step = "raw"
    /\ call' = [call EXCEPT !.step = "pooled",
                            !.outputs = apply_pooling(
                                apply_normalization(call.outputs, call.normalize),
                                call.pooling)]
    /\ UNCHANGED others

\* outputs = apply_pooling(outputs, POOLING)
Pool ==
    /\ call.step = "raw"
    /\ call' = [call EXCEPT !.step = "pooled",
                            !.outputs = apply_pooling(call.outputs, call.pooling)]
    /\ UNCHANGED others

\* outputs = apply_normalization(outputs, NORMALIZE)
Normalize ==
    /\ call.step = "pooled"
    /\ call' = [call EXCEPT !.step = "normalized",
                            !.outputs = apply_normalization(call.outputs, call.normalize)]
    /\ UNCHANGED others

\* for j, card_id in enumerate(valid_cards): ... = outputs[j].tolist()
Store ==
    /\ call.step = "normalized"
    /\ call' = [call EXCEPT !.step = "stored",
                            !.stored = [j \in Rows(call.outputs) |->
                                           [d \in Cols(call.outputs) |->
                                              call.outputs.data[<<j, d>>]]]]
    /\ UNCHANGED others

NextOutput == Pool \/ Normalize \/ Store

SpecOutput == InitOutput /\ [][NextOutput]_vars

\* ------------------------------- runs over identifiers of any length ----
\* Names of 1 byte, of exactly 255 bytes and of 256 bytes.
WideIds == {1, MaxIdBytes, MaxIdBytes + 1}

\* A vector of n numbers in a checkpoint file.  json.load checks no length:
\* the file may have been left by a run under another embeddingDim.
StoredVec(id, n) == [d \in 1..n |-> 100 * id + d]
StoredDims == {EMBEDDING_DIM, EMBEDDING_DIM + 1}

Distinct(s) == \A a, b \in DOMAIN s : a # b => s[a] # s[b]

\* The mappings json.load can return: distinct keys in file order, with the
\* vectors of one run.
StoredDicts ==
    {[k \in DOMAIN ids |-> [id |-> ids[k], vec |-> StoredVec(ids[k], n)]] :
        ids \in {s \in SeqsUpTo(WideIds, MaxEntries) : Distinct(s)},
        n \in StoredDims}

\* The configuration and the directory are there; the listing and the
\* checkpoint file hold names of any length.
InitStored ==
    /\ config_exists = TRUE
    /\ dir_exists = TRUE
    /\ all_cards \in {ScanOf(ids) : ids \in SeqsUpTo(WideIds, MaxNames)}
    /\ batch_size \in 1..MaxBatch
    /\ checkpoint_interval \in 1..MaxInterval
    /\ ckptFile \in {Absent} \cup {Stored(d) : d \in StoredDicts}
    /\ Fresh

SpecStored == InitStored /\ [][Next]_vars

\* ------------------------------------------------ reading the two files ----
ScanIds == {all_cards[k][1] : k \in DOMAIN all_cards}
PathsOf(id) == {k \in DOMAIN all_cards : all_cards[k][1] = id}
WorkPaths == {to_process[k][2] : k \in DOMAIN to_process}

\* The file is whole: the header is there and announces the records that follow.
Complete(f) ==
    /\ f.exists
    /\ f.hdr # <<>>
    /\ f.hdr[1] = Len(f.recs)
    /\ \A k \in DOMAIN f.recs : Len(f.recs[k][3]) = f.hdr[2]

FileIds(f) == {f.recs[k][2] : k \in DOMAIN f.recs}
FileVec(f, id) == f.recs[CHOOSE k \in DOMAIN f.recs : f.recs[k][2] = id][3]

\* The whole file that holds mapping d.
FileOf(d) ==
    LET ks == Writable(d)
    IN  [exists |-> TRUE,
         hdr |-> <<Len(ks), EMBEDDING_DIM>>,
         recs |-> [k \in DOMAIN ks |-> <<ByteLen(ks[k]), ks[k], Get(d, ks[k])>>]]

\* ---------------------------------------------------------------- C1 ----
\* C1: a run that starts with a checkpoint whose keys S are scanned
\* identifiers hands to preprocessing (and so to inference) only scan entries
\* whose identifier is not in S; when it reaches the end with no failure it has
\* preprocessed every such entry, and the file holds every scanned identifier,
\* those of S with their checkpointed vectors.
C1_ResumeSkipsCheckpointed ==
    Keys(loaded) \subseteq ScanIds =>
        /\ \A p \in preprocessed \cup merged : all_cards[p][1] \notin Keys(loaded)
        /\ (pc = "done" /\ failed = 0) =>
              /\ preprocessed = {p \in DOMAIN all_cards :
                                    all_cards[p][1] \notin Keys(loaded)}
              /\ Complete(outFile)
              /\ FileIds(outFile) = ScanIds
              /\ \A id \in Keys(loaded) : FileVec(outFile, id) = Get(loaded, id)

\* A finished run that found part of the scan in the checkpoint and did the rest.
C1_Witness ==
    /\ pc = "done"
    /\ failed = 0
    /\ Keys(loaded) # {}
    /\ Keys(loaded) \subseteq ScanIds
    /\ Keys(loaded) # ScanIds
    /\ preprocessed # {}

\* ---------------------------------------------------------------- C2 ----
\* What one uninterrupted run without failures leaves in the binary file, from
\* the checkpoint found before the first run.
ReferenceFile ==
    IF all_cards = <<>> THEN NoOutput
    ELSE FileOf(Merge(ckpt0.data, Unprocessed(all_cards, Keys(ckpt0.data))))

\* C2: a run that was killed and started again, in which no item and no write
\* failed, ends with the binary file one uninterrupted run would have written.
C2_RestartSameFile ==
    (pc \in {"done", "aborted"} /\ restarted /\ ~failedEver) =>
        outFile = ReferenceFile

\* ---------------------------------------------------------------- C3 ----
\* Identifiers whose vector this run computed and the checkpoint file does not hold.
Unsaved ==
    {id \in Keys(embeddings) \ Keys(loaded) :
        \/ ckptFile.st # "ok"
        \/ id \notin Keys(ckptFile.data)
        \/ Get(ckptFile.data, id) # Get(embeddings, id)}

InLoop == pc \in {"batch", "infer", "checkpoint", "save"}

\* C3 as stated: between the end of a batch and the next flush at most
\* checkpoint_interval computed embeddings are missing from the checkpoint file.
C3_AtMostThreshold ==
    InLoop => Cardinality(Unsaved) <= checkpoint_interval

\* C3 amended: at most checkpoint_interval - 1 + batch_size computed embeddings
\* are missing from the checkpoint file, and at most checkpoint_interval - 1
\* once the flush test at the end of the batch has been passed.
C3_AtMostThresholdPlusBatch ==
    /\ InLoop => Cardinality(Unsaved) <= checkpoint_interval - 1 + batch_size
    /\ pc = "batch" => Cardinality(Unsaved) <= checkpoint_interval - 1

\* A batch has been merged and more than a threshold of work awaits the flush.
C3_Witness ==
    /\ pc = "save"
    /\ Cardinality(Unsaved) > checkpoint_interval

\* ---------------------------------------------------------------- C4 ----
\* C4: whenever the process is killed, the binary file it leaves is missing
\* or whole.
C4_NoPartialFile ==
    pc = "crashed" => (~outFile.exists \/ Complete(outFile))

\* ---------------------------------------------------------------- C5 ----
\* C5: every step that removes the checkpoint file is taken by main after
\* write_binary_embeddings has returned, with the binary file whole and
\* holding the final mapping.
C5_DiscardOnlyAfterWrite ==
    [][(ckptFile.st # "absent" /\ ckptFile'.st = "absent") =>
          (pc = "unlink" /\ Complete(outFile) /\ outFile = FileOf(embeddings))]_vars

\* A checkpoint that existed before the run has been removed at the end.
C5_Witness ==
    /\ pc = "done"
    /\ ckpt0.st = "ok"
    /\ ckptFile.st = "absent"
    /\ Complete(outFile)

\* ---------------------------------------------------------------- C6 ----
\* C6: whenever the process is killed, the checkpoint file it leaves can be
\* loaded: it is missing or holds a whole mapping.
C6_CheckpointNeverCorrupt ==
    pc = "crashed" => ckptFile.st # "corrupt"

\* ---------------------------------------------------------------- C7 ----
\* C7: no step of a run takes a key out of the in-memory mapping (the end of
\* the process, which takes the memory with it, is no step of the run).
C7_KeysOnlyGrow ==
    [][pc' # "crashed" => Keys(embeddings) \subseteq Keys(embeddings')]_vars

\* A batch has been merged into a mapping that already held loaded keys.
C7_Witness ==
    /\ pc = "checkpoint"
    /\ Keys(loaded) # {}
    /\ Keys(loaded) \subseteq Keys(embeddings)
    /\ Keys(embeddings) # Keys(loaded)

\* ---------------------------------------------------------------- C8 ----
ValidIds == {valid_cards[k][1] : k \in DOMAIN valid_cards}
MergeStep == pc = "infer" /\ pc' = "checkpoint"

\* C8 as stated: merging a batch changes the vector of no identifier that is
\* already a key.
C8_MergeNeverOverwrites ==
    [][MergeStep =>
          \A id \in Keys(embeddings) :
              /\ id \in Keys(embeddings')
              /\ Get(embeddings', id) = Get(embeddings, id)]_vars

\* C8 amended: merging a batch changes the vector of no identifier loaded from
\* the checkpoint file, and of no other key unless the batch holds a scan
\* entry with that identifier (whose row then replaces the stored one).
C8_MergeKeepsLoaded ==
    [][MergeStep =>
          \A id \in Keys(embeddings) :
              (id \in Keys(loaded) \/ id \notin ValidIds) =>
                  /\ id \in Keys(embeddings')
                  /\ Get(embeddings', id) = Get(embeddings, id)]_vars

\* Beside loaded keys, an identifier has been stored from two scan entries.
C8_Witness ==
    /\ pc = "checkpoint"
    /\ Keys(loaded) # {}
    /\ \E id \in Keys(embeddings) \ Keys(loaded) :
          Cardinality(PathsOf(id) \cap merged) >= 2

\* ---------------------------------------------------------------- C9 ----
Max(S) == CHOOSE x \in S : \A y \in S : y <= x
DuplicatedIds == {id \in ScanIds : Cardinality(PathsOf(id)) >= 2}

\* C9 as stated: a finished run has kept every scan entry of a duplicated
\* identifier in the work list and stored the row of the last of them.
C9_LastEntryWins ==
    pc = "done" =>
        \A id \in DuplicatedIds :
            /\ PathsOf(id) \subseteq WorkPaths
            /\ id \in FileIds(outFile)
            /\ FileVec(outFile, id) = OutputRow(Max(PathsOf(id)))

\* C9 amended: when a duplicated identifier is no key of the loaded
\* checkpoint, every scan entry of it is in the work list and a finished run
\* has stored the row of the last of them that was preprocessed and inferred
\* without failure in this run (none when all failed); when it is a key of the
\* loaded checkpoint, all its scan entries are dropped and the checkpointed
\* vector is kept.
C9_LastMergedEntryWins ==
    pc = "done" =>
        \A id \in DuplicatedIds :
            IF id \in Keys(loaded)
            THEN /\ PathsOf(id) \cap WorkPaths = {}
                 /\ FileVec(outFile, id) = Get(loaded, id)
            ELSE /\ PathsOf(id) \subseteq WorkPaths
                 /\ LET ok == PathsOf(id) \cap merged
                    IN  IF ok = {} THEN id \notin FileIds(outFile)
                        ELSE FileVec(outFile, id) = OutputRow(Max(ok))

\* A finished run stored a duplicated identifier from two of its scan entries.
C9_Witness ==
    /\ pc = "done"
    /\ \E id \in DuplicatedIds :
          /\ id \notin Keys(loaded)
          /\ Cardinality(PathsOf(id) \cap merged) >= 2

\* --------------------------------------------------------------- C10 ----
\* C10: the step in which session.run raises for the batch at i counts every
\* survivor of the batch as failed, leaves the mapping as it was and goes on
\* to the end of the batch; inference is called at most once for a batch; and
\* the end of a batch moves on to the next batch.
C10_InferenceFailureSkipsBatch ==
    /\ [][(pc = "infer" /\ <<i, "failed">> \in inferCalls') =>
             /\ failed' = failed + Len(valid_cards)
             /\ embeddings' = embeddings
             /\ pc' = "checkpoint"
             /\ \A c \in inferCalls : c[1] # i]_vars
    /\ [][(pc \in {"checkpoint", "dump"} /\ pc' = "batch") =>
             i' = i + batch_size]_vars

\* After a batch whose inference failed, a later batch has reached inference.
C10_Witness ==
    /\ pc = "infer"
    /\ \E c \in inferCalls : c[2] = "failed" /\ c[1] < i

\* --------------------------------------------------------------- C11 ----
\* The entries of the batch at i, and the paths of a list of entries.
BatchAt == Slice(to_process, i, batch_size)
PathsIn(cards) == {cards[k][2] : k \in DOMAIN cards}

\* C11: the step that preprocesses the batch at i adds to `failed` exactly the
\* number of items of the batch whose load raised, hands to inference exactly
\* the other items of the batch in batch order, and never aborts; when
\* inference then succeeds, every one of these other items is merged.
C11_ImageFailureSkipsOneItem ==
    /\ [][(pc = "batch" /\ i < Len(to_process) /\ pc' # "crashed") =>
             LET newlyFailed == loadFailed' \ loadFailed
             IN  /\ newlyFailed \subseteq PathsIn(BatchAt)
                 /\ failed' = failed + Cardinality(newlyFailed)
                 /\ PathsIn(valid_cards') = PathsIn(BatchAt) \ newlyFailed
                 /\ Len(valid_cards') = Cardinality(PathsIn(valid_cards'))
                 /\ \A k \in DOMAIN valid_cards' :
                        /\ valid_cards'[k] = all_cards[valid_cards'[k][2]]
                        /\ k > 1 => valid_cards'[k - 1][2] < valid_cards'[k][2]
                 /\ pc' = IF valid_cards' = <<>> THEN "batch" ELSE "infer"]_vars
    /\ [][(pc = "infer" /\ <<i, "ok">> \in inferCalls') =>
             /\ merged' = merged \cup (PathsIn(BatchAt) \ loadFailed)
             /\ \A p \in PathsIn(BatchAt) \ loadFailed :
                    all_cards[p][1] \in Keys(embeddings')
             /\ failed' = failed]_vars

\* A batch lost one item to a load failure and its other item was merged.
C11_Witness ==
    /\ pc = "checkpoint"
    /\ PathsIn(BatchAt) \cap loadFailed # {}
    /\ PathsIn(BatchAt) \cap merged # {}
    /\ failed = Cardinality(PathsIn(BatchAt) \cap loadFailed)

\* --------------------------------------------------------------- C13 ----
\* The run is still before its batch loop.
Starting == pc \in {"config", "scan", "load"}

\* C13: a run without the configuration file ends at load_config, a run
\* without the card-images directory ends at the scan, and a run whose
\* checkpoint file does not parse ends at load_checkpoint; a run that ends
\* before its batch loop has preprocessed nothing, no step before the batch
\* loop touches the output file or the checkpoint file, and an ended run
\* touches neither.
C13_StartupErrorsAbort ==
    /\ [][(pc = "config" /\ ~config_exists /\ pc' # "crashed") =>
             pc' = "aborted"]_vars
    /\ [][(pc = "scan" /\ ~dir_exists /\ pc' # "crashed") =>
             pc' = "aborted"]_vars
    /\ [][(pc = "load" /\ ckptFile = Corrupt /\ pc' # "crashed") =>
             pc' = "aborted"]_vars
    /\ [][Starting => (outFile' = outFile /\ ckptFile' = ckptFile)]_vars
    /\ [][(Starting /\ pc' = "aborted") =>
             (preprocessed' = {} /\ inferCalls' = {} /\ merged' = {})]_vars
    /\ [][pc = "aborted" =>
             (pc' = "aborted" /\ outFile' = outFile /\ ckptFile' = ckptFile)]_vars

\* A run ended at a checkpoint file that does not parse, which is still there.
C13_Witness ==
    /\ pc = "aborted"
    /\ config_exists
    /\ dir_exists
    /\ ckptFile = Corrupt
    /\ preprocessed = {}

\* Runs that ended at the missing configuration and at the missing directory.
C13_NoConfigSeen == pc = "aborted" /\ ~config_exists /\ ckptFile # Absent
C13_NoDirSeen == pc = "aborted" /\ config_exists /\ ~dir_exists /\ ckptFile # Absent

\* --------------------------------------------------------------- C15 ----
\* The batch loop is over: main prints the summary and writes the file.
AfterLoop == pc \in {"write", "header", "records", "unlink", "done"}

\* C15: once the batch loop is over, `failed` is the number of work-list
\* entries whose load raised plus the number of survivors of the batches whose
\* inference raised, no entry being in both groups, and the work-list size
\* minus `failed` is the number of work-list entries whose row was stored.
C15_SummaryCounts ==
    AfterLoop =>
        /\ loadFailed \cup inferLost \cup merged = WorkPaths
        /\ loadFailed \cap inferLost = {}
        /\ merged \cap (loadFailed \cup inferLost) = {}
        /\ failed = Cardinality(loadFailed) + Cardinality(inferLost)
        /\ Len(to_process) - failed = Cardinality(merged)

\* A finished run counted a load failure and a failed batch.
C15_Witness ==
    /\ pc = "done"
    /\ loadFailed # {}
    /\ inferLost # {}
    /\ failed = 2

\* --------------------------------------------------------------- C14 ----
\* The run got past its start-up checks with a non-empty scan.
Started == config_exists /\ dir_exists /\ all_cards # <<>>

\* C14: an undisturbed run with its configuration, its directory and a
\* non-empty scan never aborts, whichever loads and batches fail, and it
\* reaches the end with a whole output file and no checkpoint file.
C14_FailuresNeverAbort ==
    /\ [](Started => pc # "aborted")
    /\ Started ~> (pc = "done" /\ Complete(outFile) /\ ckptFile = Absent)

\* A run in which every work-list entry failed, by both kinds of failure, ended.
C14_Witness ==
    /\ pc = "done"
    /\ to_process # <<>>
    /\ failed = Len(to_process)
    /\ loadFailed # {}
    /\ <<0, "failed">> \in inferCalls \/ <<1, "failed">> \in inferCalls

\* --------------------------------------------------------------- C12 ----
\* write_binary_embeddings has returned.
Written == pc \in {"unlink", "done"}

\* The records of a file as entries, and the entries with a short identifier.
RecordsOf(f) == [k \in DOMAIN f.recs |-> [id |-> f.recs[k][2], vec |-> f.recs[k][3]]]
ShortEntries(d) == SelectSeq(d, LAMBDA e : ByteLen(e.id) <= MaxIdBytes)
MergedIds == {all_cards[p][1] : p \in merged}
FirstMerged(id) == CHOOSE p \in PathsOf(id) \cap merged :
                      \A q \in PathsOf(id) \cap merged : p <= q

\* C12: at the end of a run the records of the output file are, in order,
\* the entries of the mapping whose identifier has at most 255 bytes; the
\* mapping is the loaded entries, unchanged and in their order, followed by
\* one entry per identifier stored in this run, in the order they were first
\* stored and with the row of the last entry stored; no checkpoint file is
\* left.
C12_FileIsFinalMapping ==
    pc = "done" =>
        /\ outFile.exists
        /\ outFile.hdr # <<>>
        /\ RecordsOf(outFile) = ShortEntries(embeddings)
        /\ ckptFile = Absent
        /\ Len(embeddings) = Len(loaded) + Cardinality(MergedIds)
        /\ SubSeq(embeddings, 1, Len(loaded)) = loaded
        /\ \A k \in DOMAIN embeddings : k > Len(loaded) =>
               LET id == embeddings[k].id
               IN  /\ id \in MergedIds
                   /\ embeddings[k].vec = OutputRow(Max(PathsOf(id) \cap merged))
                   /\ k > Len(loaded) + 1 =>
                          FirstMerged(embeddings[k - 1].id) < FirstMerged(id)

\* A finished run wrote a loaded entry and then a stored one, and left out a
\* loaded entry whose identifier is too long.
C12_Witness ==
    /\ pc = "done"
    /\ Len(outFile.recs) = 2
    /\ outFile.recs[1][2] \in Keys(loaded)
    /\ outFile.recs[2][2] \in MergedIds
    /\ Len(embeddings) = 3

\* --------------------------------------------------------------- C16 ----
\* C16: once the file is written, an identifier of more than 255 bytes has no
\* record in it, neither under its name nor under another (the file has one
\* record per shorter identifier, each under its own name and with its own
\* vector), and it was reported; an identifier of exactly 255 bytes has its
\* record, with length byte 255, and was not reported.
C16_LongIdentifiersSkipped ==
    Written =>
        /\ \A id \in Keys(embeddings) : ByteLen(id) > MaxIdBytes =>
               /\ id \in warned
               /\ \A k \in DOMAIN outFile.recs : outFile.recs[k][2] # id
        /\ Len(outFile.recs) =
               Cardinality({id \in Keys(embeddings) : ByteLen(id) <= MaxIdBytes})
        /\ \A k \in DOMAIN outFile.recs :
               LET id == outFile.recs[k][2]
               IN  /\ id \in Keys(embeddings)
                   /\ outFile.recs[k] = <<ByteLen(id), id, Get(embeddings, id)>>
        /\ \A id \in Keys(embeddings) : ByteLen(id) = MaxIdBytes =>
               /\ id \notin warned
               /\ \E k \in DOMAIN outFile.recs :
                      outFile.recs[k] = <<MaxIdBytes, id, Get(embeddings, id)>>

\* A written file has the 255-byte name and not the 256-byte one.
C16_Witness ==
    /\ pc = "done"
    /\ MaxIdBytes \in FileIds(outFile)
    /\ MaxIdBytes + 1 \in Keys(embeddings)
    /\ MaxIdBytes + 1 \in warned

\* --------------------------------------------------------------- C17 ----
\* C17: the count in the header is the number of identifiers still to be
\* written plus the records already written; once the file is written it is
\* the number of records, which is the number of identifiers of at most 255
\* bytes in the mapping.
C17_HeaderCountsRecords ==
    /\ (pc = "records" /\ outFile.hdr # <<>>) =>
           outFile.hdr[1] = Len(outFile.recs) + Len(card_ids)
    /\ Written =>
           /\ outFile.hdr[1] = Len(outFile.recs)
           /\ outFile.hdr[1] =
                  Cardinality({id \in Keys(embeddings) : ByteLen(id) <= MaxIdBytes})

\* A written file announces fewer records than the mapping has entries.
C17_Witness ==
    /\ pc = "done"
    /\ outFile.hdr[1] > 0
    /\ outFile.hdr[1] < Len(embeddings)

\* --------------------------------------------------------------- C18 ----
\* C18: once the file is written, every record has as many floats as the
\* header announces.
C18_RecordsCarryDim ==
    Written =>
        \A k \in DOMAIN outFile.recs : Len(outFile.recs[k][3]) = outFile.hdr[2]

\* --------------------------------------------------------------- C19 ----
\* Mutant: the unsigned integers are written most significant byte first.
PackU32BigEndian(n) ==
    <<(n \div 16777216) % 256, (n \div 65536) % 256, (n \div 256) % 256, n % 256>>

\* struct.pack("<I", n)
PackU32(n) ==
    <<n % 256, (n \div 256) % 256, (n \div 65536) % 256, (n \div 16777216) % 256>>

\* struct.pack("<B", n), for the n <= 255 that line 150 lets through
PackU8(n) == <<n>>

\* struct.pack("<f", val).  A vector holds 32-bit floats (tolist() of a
\* float32 row, or such a row read back from JSON); a number of the model
\* stands for the 32-bit word of the float.
PackF32(w) ==
    <<w % 256, (w \div 256) % 256, (w \div 65536) % 256, (w \div 16777216) % 256>>

\* card_id.encode("utf-8"): the ByteLen(id) bytes of the name.
IdBytes(id) == [k \in 1..ByteLen(id) |-> id % 128]

\* The bytes of one record: the length byte, the name, the floats.
RecordBytes(rec) ==
    PackU8(rec[1]) \o IdBytes(rec[2])
        \o Concat([d \in DOMAIN rec[3] |-> PackF32(rec[3][d])])

\* The bytes the f.write calls have put into the file so far.
BytesOf(f) ==
    (IF f.hdr = <<>> THEN <<>> ELSE PackU32(f.hdr[1]) \o PackU32(f.hdr[2]))
        \o Concat([k \in DOMAIN f.recs |-> RecordBytes(f.recs[k])])

\* A reader of the documented layout (little-endian throughout): a 4-byte
\* unsigned integer at position k.
U32At(b, k) == b[k] + 256 * b[k + 1] + 65536 * b[k + 2] + 16777216 * b[k + 3]

RECURSIVE ParseRecords(_, _, _, _)
\* n records of `dim` floats from position pos: per record a length byte,
\* that many name bytes, dim 32-bit floats; not ok when the bytes run out.
ParseRecords(b, pos, n, dim) ==
    IF n = 0 THEN [ok |-> TRUE, recs |-> <<>>, end |-> pos]
    ELSE IF pos > Len(b) \/ pos + b[pos] + 4 * dim > Len(b)
    THEN [ok |-> FALSE, recs |-> <<>>, end |-> pos]
    ELSE LET l == b[pos]
             rest == ParseRecords(b, pos + 1 + l + 4 * dim, n - 1, dim)
             rec == [id |-> SubSeq(b, pos + 1, pos + l),
                     vec |-> [d \in 1..dim |-> U32At(b, pos + 1 + l + 4 * (d - 1))]]
         IN  [ok |-> rest.ok, recs |-> <<rec>> \o rest.recs, end |-> rest.end]

\* The whole file: the count, the dimensionality, then the records, and
\* nothing after them.
Parse(b) ==
    IF Len(b) < 8 THEN [ok |-> FALSE, dim |-> 0, recs |-> <<>>]
    ELSE LET r == ParseRecords(b, 9, U32At(b, 1), U32At(b, 5))
         IN  [ok |-> r.ok /\ r.end = Len(b) + 1, dim |-> U32At(b, 5), recs |-> r.recs]

\* Every identifier of d has at most 255 bytes and every vector dim values.
Regular(d) ==
    \A k \in DOMAIN d :
        ByteLen(d[k].id) <= MaxIdBytes /\ Len(d[k].vec) = EMBEDDING_DIM

\* C19: when the mapping handed to write_binary_embeddings has identifiers of
\* at most 255 bytes and vectors of dim values, reading the written bytes by
\* the documented layout succeeds and gives the dimensionality and, entry by
\* entry in the mapping's order, the bytes of each identifier and the floats
\* of its vector in their order.
C19_ParseAfterWrite ==
    (Written /\ Regular(embeddings)) =>
        LET p == Parse(BytesOf(outFile))
        IN  /\ p.ok
            /\ p.dim = EMBEDDING_DIM
            /\ Len(p.recs) = Len(embeddings)
            /\ \A k \in DOMAIN embeddings :
                   /\ p.recs[k].id = IdBytes(embeddings[k].id)
                   /\ p.recs[k].vec = embeddings[k].vec

\* A written file holds a loaded entry with a 255-byte name and a stored one.
C19_Witness ==
    /\ pc = "done"
    /\ Regular(embeddings)
    /\ Len(embeddings) >= 2
    /\ MaxIdBytes \in Keys(loaded)
    /\ merged # {}

\* --------------------------------------------------------------- C20 ----
\* C20: an identifier that went through card_id_to_filename and then
\* filename_to_card_id comes back as it was.
C20_RoundTrip ==
    codec.step = "decoded" => codec.decoded = codec.id

\* The same for the identifiers that unquote leaves as they are.
C20_RoundTripWithoutEscapes ==
    (codec.step = "decoded" /\ unquote(codec.id) = codec.id) =>
        codec.decoded = codec.id

\* --------------------------------------------------------------- C21 ----
\* The characters of the token table, and the strings free of them.
TableChars == {FILESYSTEM_CHAR_MAP[k][1][1] : k \in DOMAIN FILESYSTEM_CHAR_MAP}
NoTableChar(s) == \A k \in DOMAIN s : s[k] \notin TableChars

\* C21 as stated: the filename of every identifier is the filename of its
\* URL-decoded form, and it holds no character of the token table.
C21_EncodesDecodedForm ==
    codec.step = "encoded" =>
        /\ codec.filename = card_id_to_filename(unquote(codec.id))
        /\ NoTableChar(codec.filename)

\* C21: the filename of an identifier whose URL-decoded form holds no further
\* escape is the substitution of the table applied to that decoded form, and
\* so the filename of the decoded form; %3F gives what ? gives; and no
\* filename holds a character of the token table.
C21_EncodesSinglyDecodedForm ==
    codec.step = "encoded" =>
        /\ unquote(unquote(codec.id)) = unquote(codec.id) =>
               /\ codec.filename = ReplaceAll(unquote(codec.id), FILESYSTEM_CHAR_MAP, 1)
               /\ codec.filename = card_id_to_filename(unquote(codec.id))
        /\ codec.id = <<"%", "3", "F">> =>
               codec.filename = card_id_to_filename(<<"?">>)
        /\ NoTableChar(codec.filename)

\* The identifier l%3F% was encoded as l_qmark__pct_.
C21_Witness ==
    /\ codec.step = "encoded"
    /\ codec.id = <<"l", "%", "3", "F", "%">>
    /\ codec.filename = <<"l", "_", "q", "m", "a", "r", "k", "_", "_", "p", "c", "t", "_">>

\* --------------------------------------------------------------- C22 ----
\* C22: after the crop step of a W x H image, with s = min(W, H): for
\* "center" the box is ((W-s)//2, (H-s)//2, (W-s)//2+s, (H-s)//2+s), for
\* "top" it is ((W-s)//2, 0, (W-s)//2+s, s); a box lies inside the image and
\* is s by s, and so is the cropped image; for "none" nothing is cropped and
\* the image keeps its size; 300x200 gives (50,0,250,200) for both methods,
\* 200x300 gives (0,0,200,200) for "top" and (0,50,200,250) for "center".
C22_CropBox ==
    call.step = "cropped" =>
        LET W == call.width
            H == call.height
            s == IF W <= H THEN W ELSE H
            b == call.box
        IN  /\ call.method = "center" =>
                   /\ call.cropped
                   /\ b = <<(W - s) \div 2, (H - s) \div 2,
                            (W - s) \div 2 + s, (H - s) \div 2 + s>>
            /\ call.method = "top" =>
                   /\ call.cropped
                   /\ b = <<(W - s) \div 2, 0, (W - s) \div 2 + s, s>>
            /\ call.cropped =>
                   /\ 0 <= b[1] /\ b[1] < b[3] /\ b[3] <= W
                   /\ 0 <= b[2] /\ b[2] < b[4] /\ b[4] <= H
                   /\ b[3] - b[1] = s
                   /\ b[4] - b[2] = s
                   /\ call.size = <<s, s>>
            /\ call.method = "none" =>
                   (~call.cropped /\ call.size = <<W, H>>)
            /\ (W = 300 /\ H = 200 /\ call.cropped) => b = <<50, 0, 250, 200>>
            /\ (W = 200 /\ H = 300 /\ call.method = "top") => b = <<0, 0, 200, 200>>
            /\ (W = 200 /\ H = 300 /\ call.method = "center") => b = <<0, 50, 200, 250>>

\* A 200x300 image was cropped from the top.
C22_Witness ==
    /\ call.step = "cropped"
    /\ call.method = "top"
    /\ call.width = 200
    /\ call.height = 300
    /\ call.box = <<0, 0, 200, 200>>

\* --------------------------------------------------------------- C23 ----
\* C23: after the pooling step the output has shape (batch, dim); an entry
\* of a (batch, sequence, dim) raw output is, for "mean", the number whose
\* multiple by the sequence length is the sum of the raw entries of its row
\* and column over the sequence, and for any other pooling the raw entry at
\* the first position; a (batch, dim) raw output is unchanged.
C23_Pooling ==
    call.step = "pooled" =>
        LET raw == call.raw
            out == call.outputs
            B == raw.shape[1]
            D == raw.shape[Len(raw.shape)]
        IN  /\ out.shape = <<B, D>>
            /\ DOMAIN out.data = (1..B) \X (1..D)
            /\ Len(raw.shape) = 2 => out = raw
            /\ (Len(raw.shape) = 3 /\ call.pooling = "mean") =>
                   \A b \in 1..B, d \in 1..D :
                      /\ out.data[<<b, d>>].q = One
                      /\ RatMul(out.data[<<b, d>>].v, Rat(raw.shape[2], 1)) =
                            SumOver([s \in 1..raw.shape[2] |-> raw.data[<<b, s, d>>].v],
                                    1..raw.shape[2])
            /\ (Len(raw.shape) = 3 /\ call.pooling # "mean") =>
                   \A b \in 1..B, d \in 1..D :
                      out.data[<<b, d>>] = raw.data[<<b, 1, d>>]

\* Two positions (1, 2) and (2, 0) were averaged to (3/2, 1).
C23_Witness ==
    /\ call.step = "pooled"
    /\ call.pooling = "mean"
    /\ call.raw.shape = <<1, 2, EMBEDDING_DIM>>
    /\ call.raw.data[<<1, 1, 1>>] = Entry(1)
    /\ call.raw.data[<<1, 1, 2>>] = Entry(2)
    /\ call.raw.data[<<1, 2, 1>>] = Entry(2)
    /\ call.raw.data[<<1, 2, 2>>] = Entry(0)
    /\ call.outputs.data[<<1, 1>>].v = Rat(3, 2)
    /\ call.outputs.data[<<1, 2>>].v = Rat(1, 1)

\* --------------------------------------------------------------- C24 ----
\* Two entries are the same number (v and q are not negative).
SameNumber(x, y) ==
    RatMul(RatMul(x.v, x.v), y.q) = RatMul(RatMul(y.v, y.v), x.q)
SameArray(a, b) ==
    /\ a.shape = b.shape
    /\ \A x \in DOMAIN a.data : SameNumber(a.data[x], b.data[x])

\* The two orders of the two functions on the raw output of the call.
NormalizeOfPool ==
    apply_normalization(apply_pooling(call.raw, call.pooling), call.normalize)
PoolOfNormalize ==
    apply_pooling(apply_normalization(call.raw, call.normalize), call.pooling)

\* The rows stored are the rows of array a.
StoredIs(a) ==
    /\ DOMAIN call.stored = Rows(a)
    /\ \A j \in Rows(a), d \in Cols(a) :
          SameNumber(call.stored[j][d], a.data[<<j, d>>])

\* The pooled entry of row b and column d is not zero.
PooledNonZero(b, d) == apply_pooling(call.raw, call.pooling).data[<<b, d>>].v.n # 0
\* The floored norm, squared, of column d of row b over the sequence.
ColumnNormSq(b, d) ==
    FlooredNormSq([t \in Positions(call.raw) |-> call.raw.data[<<b, t, d>>]])

Pooled == apply_pooling(call.raw, call.pooling)
PooledNormSq(j) ==
    SumOver([d \in Cols(Pooled) |-> Square(Pooled.data[<<j, d>>])], Cols(Pooled))
\* The square of the norm of the stored row j.
StoredNormSq(j) ==
    SumOver([d \in DOMAIN call.stored[j] |-> Square(call.stored[j][d])],
            DOMAIN call.stored[j])
AllZero(row) == \A d \in DOMAIN row : row[d].v.n = 0
PooledRow(j) == [d \in Cols(Pooled) |-> Pooled.data[<<j, d>>]]
\* The square of a norm within 1e-5 of 1 lies between 0.99998 and 1.00003.
NearOne(normSq) ==
    /\ normSq.n * 100000 >= 99998 * normSq.d
    /\ normSq.n * 100000 <= 100003 * normSq.d
BelowFloor(normSq) == normSq.n < NormFloor * NormFloor * normSq.d

\* C25 as stated: with normalize set every stored vector has norm within 1e-5
\* of 1 unless the pooled vector is all zero, and then it is all zero; without
\* normalize the pooled vector is stored unchanged.
C25_UnitNormUnlessZero ==
    call.step = "stored" =>
        \A j \in DOMAIN call.stored :
            IF ~call.normalize THEN call.stored[j] = PooledRow(j)
            ELSE IF AllZero(PooledRow(j)) THEN AllZero(call.stored[j])
            ELSE NearOne(StoredNormSq(j))

\* C25: with normalize set a stored vector has norm 1 when the norm of the
\* pooled vector is at least the floor 1e-12; a pooled vector below the floor,
\* the all-zero one included, is divided by the floor, so that its stored norm
\* is its norm over the floor, below 1, and an all-zero vector stays all zero;
\* without normalize the pooled vector is stored unchanged.
C25_UnitNormAboveFloor ==
    call.step = "stored" =>
        \A j \in DOMAIN call.stored :
            IF ~call.normalize THEN call.stored[j] = PooledRow(j)
            ELSE IF BelowFloor(PooledNormSq(j))
            THEN /\ StoredNormSq(j) =
                       RatMul(PooledNormSq(j), Rat(1, NormFloor * NormFloor))
                 /\ ~NearOne(StoredNormSq(j))
                 /\ AllZero(PooledRow(j)) => AllZero(call.stored[j])
            ELSE StoredNormSq(j) = One

\* The pooled vector (2, 2) was normalized and stored with norm 1.
C25_Witness ==
    /\ call.step = "stored"
    /\ call.normalize
    /\ PooledRow(1) = [d \in 1..EMBEDDING_DIM |-> Entry(2)]
    /\ StoredNormSq(1) = One
    /\ \A d \in 1..EMBEDDING_DIM :
          SameNumber(call.stored[1][d], [v |-> Rat(2, 1), q |-> Rat(8, 1)])

\* --------------------------------------------------------------- C26 ----
\* The end of a batch that reached inference: the flush test is taken.
BatchEnd == pc = "checkpoint" /\ pc' \in {"save", "batch"}
\* save_checkpoint is called / has returned.
FlushBegins == pc # "save" /\ pc' = "save"
FlushEnds == pc = "dump" /\ pc' = "batch"

\* C26: save_checkpoint is called only at the end of a batch, and there
\* exactly when the number of items that survived preprocessing since the
\* last flush, or since the start of the run, is at least
\* checkpoint_interval; when it returns the counter is zero; between batches
\* the counter is that number and is below checkpoint_interval; and when
\* checkpoint_interval exceeds batch_size a flush covers survivors of a batch
\* that ended without a flush.
C26_FlushAtThreshold ==
    /\ [][/\ FlushBegins => BatchEnd
          /\ BatchEnd => (pc' = "save" <=>
                             Cardinality(sinceFlush) >= checkpoint_interval)
          /\ FlushEnds => checkpoint_counter' = 0]_vars
    /\ [](pc = "batch" =>
             /\ checkpoint_counter = Cardinality(sinceFlush)
             /\ checkpoint_counter < checkpoint_interval)
    /\ []((pc = "save" /\ checkpoint_interval > batch_size) =>
             ~(sinceFlush \subseteq PathsIn(BatchAt)))

\* With batch size 1 and interval 2 the first batch has ended without a flush
\* and the second one flushes.
C26_Witness ==
    /\ pc = "save"
    /\ batch_size = 1
    /\ checkpoint_interval = 2
    /\ i = 1
    /\ Cardinality(sinceFlush) = 2
    /\ checkpoint_counter = 2
    /\ ckptFile = ckpt0

\* --------------------------------------------------------------- C27 ----
\* A run has taken what load_checkpoint returned.
Loads == pc = "load" /\ pc' \in {"batch", "write"}

\* C27: when save_checkpoint returns the checkpoint file holds the text of
\* the whole in-memory mapping, whose keys are those loaded and those merged
\* so far, whatever the file held before; only save_checkpoint and the final
\* unlink change the file; a run that loads a checkpoint file gets the
\* mapping whose text the last flush left in it, and a run that finds no
\* checkpoint file gets the empty mapping.
C27_FlushThenLoad ==
    [][/\ FlushEnds =>
            /\ ckptFile' = Stored(embeddings')
            /\ embeddings' = embeddings
            /\ Keys(embeddings') = Keys(loaded') \cup MergedIds'
       /\ ckptFile' # ckptFile => pc \in {"save", "dump", "unlink"}
       /\ Loads =>
            /\ ckptFile.st = "ok" =>
                  /\ loaded' = ckptFile.data
                  /\ json_load(json_dump(ckptFile.data)) = ckptFile.data
            /\ ckptFile = Absent => loaded' = <<>>
            /\ embeddings' = loaded']_vars

\* A later run has loaded the two entries an earlier run had flushed over a
\* checkpoint of one entry.
C27_Witness ==
    /\ restarted
    /\ pc \in {"batch", "write"}
    /\ Len(loaded) = 2
    /\ loaded = ckptFile.data
    /\ ckpt0.st = "ok"
    /\ Len(ckpt0.data) = 1

\* --------------------------------------------------------------- C28 ----
\* The step that preprocesses a batch of which no item survives.
AllFailedBatch ==
    /\ pc = "batch"
    /\ preprocessed' # preprocessed
    /\ (preprocessed' \ preprocessed) \subseteq loadFailed'

\* C28: the step that preprocesses a batch of which no item survives goes on
\* to the next batch without a call of session.run, leaves the mapping, the
\* checkpoint file and the flush counter as they are and adds the number of
\* items of the batch to `failed`, each item being a newly failed one; and in
\* a running process no session.run is recorded for a batch whose items all
\* failed.
C28_AllFailedBatchSkipped ==
    /\ [][AllFailedBatch =>
            /\ pc' = "batch"
            /\ i' = i + batch_size
            /\ inferCalls' = inferCalls
            /\ embeddings' = embeddings
            /\ ckptFile' = ckptFile
            /\ checkpoint_counter' = checkpoint_counter
            /\ sinceFlush' = sinceFlush
            /\ loadFailed' \ loadFailed = PathsIn(BatchAt)
            /\ failed' = failed + Len(BatchAt)]_vars
    /\ [](pc # "crashed" =>
             \A c \in inferCalls :
                ~(PathsIn(Slice(to_process, c[1], batch_size)) \subseteq loadFailed))

\* A batch of two items has failed as a whole, and nothing else has happened.
C28_Witness ==
    /\ pc = "batch"
    /\ batch_size = 2
    /\ i = 2
    /\ Len(to_process) = 2
    /\ failed = 2
    /\ Cardinality(loadFailed) = 2
    /\ inferCalls = {}
    /\ embeddings = loaded
    /\ checkpoint_counter = 0

\* --------------------------------------------------------------- C29 ----
\* The stage of main a position belongs to.
Stage(p) ==
    CASE p \in {"config", "scan"} -> 1
      [] p = "load" -> 2
      [] p \in {"batch", "infer", "checkpoint", "save", "dump"} -> 3
      [] p \in {"write", "header", "records"} -> 4
      [] p = "unlink" -> 5
      [] p = "done" -> 6
      [] OTHER -> 0

\* A step of main that neither ends the process early nor starts it again.
RunStep == Stage(pc) # 0 /\ Stage(pc') # 0
\* The paths of the batches before index n, and from index n on.
PathsBefore(n) == {to_process[k][2] : k \in {x \in DOMAIN to_process : x <= n}}
PathsFrom(n) == {to_process[k][2] : k \in {x \in DOMAIN to_process : x > n}}
Handled == loadFailed \cup inferLost \cup merged

\* C29: a step of main stays in its stage or goes to the next one of scan,
\* load, loop, write, discard, done (from load to write when nothing is left
\* to process); save_checkpoint is called only at the end of a batch; the
\* binary file is changed only in the write stage, which begins when every
\* entry of the work list has been handled; the loop index moves on only when
\* the batch has been preprocessed and its inference call and merge are
\* over; when a batch begins every item of the earlier batches has failed or
\* been merged and no later item has been touched; and at most one
\* inference call, a completed one, is recorded for a batch.
C29_StepsInOrder ==
    /\ [][/\ RunStep =>
              \/ Stage(pc') = Stage(pc)
              \/ Stage(pc') = Stage(pc) + 1
              \/ pc = "load" /\ pc' = "write" /\ to_process' = <<>>
          /\ pc' = "save" /\ pc # "save" => pc = "checkpoint"
          /\ outFile' # outFile =>
                 /\ pc \in {"write", "header", "records"}
                 /\ i >= Len(to_process)
                 /\ Handled = WorkPaths
          /\ (RunStep /\ i' # i) =>
                 /\ pc \in {"load", "batch", "checkpoint", "dump"}
                 /\ pc' \in {"batch", "write"}
          /\ (pc = "infer" /\ pc' = "checkpoint") =>
                 Cardinality(inferCalls' \ inferCalls) = 1]_vars
    /\ [](Stage(pc) \in {4, 5, 6} =>
             (i >= Len(to_process) /\ Handled = WorkPaths))
    /\ [](pc = "batch" =>
             /\ Handled = PathsBefore(i)
             /\ preprocessed = PathsBefore(i))
    /\ [](Stage(pc) = 3 =>
             /\ preprocessed \cap PathsFrom(i + batch_size) = {}
             /\ \A c \in inferCalls :
                    \/ c[1] < i
                    \/ c[1] = i /\ pc \in {"checkpoint", "save", "dump"}
             /\ \A c, e \in inferCalls : c[1] = e[1] => c = e)

\* A run of two batches, each with its inference call, has written the file
\* and discarded the checkpoint.
C29_Witness ==
    /\ pc = "done"
    /\ Cardinality(inferCalls) = 2
    /\ Complete(outFile)
    /\ ckptFile = Absent
    /\ ~restarted

\* --------------------------------------------------------------- C30 ----
\* The step that hands a batch to preprocess_image.
Submits == pc = "batch" /\ preprocessed' # preprocessed

\* C30: the work list is in scan order; a batch starts at a multiple of
\* batch_size and is the run of entries of the work list from there, as long
\* as batch_size unless the work list ends; the entries a step hands to
\* preprocessing are those of its batch and none of them has been handed over
\* before in this run; between batches the entries handed over are the
\* first i of the work list, and after the loop all of them; and the calls
\* of session.run recorded are at most one per batch.
C30_BatchesPartitionWork ==
    /\ [][Submits =>
            /\ i % batch_size = 0
            /\ Len(BatchAt) >= 1
            /\ \A k \in DOMAIN BatchAt : BatchAt[k] = to_process[i + k]
            /\ \/ Len(BatchAt) = batch_size
               \/ Len(BatchAt) < batch_size /\ i + Len(BatchAt) = Len(to_process)
            /\ preprocessed' \ preprocessed = PathsIn(BatchAt)
            /\ preprocessed \cap PathsIn(BatchAt) = {}
            /\ Cardinality(PathsIn(BatchAt)) = Len(BatchAt)]_vars
    /\ [](\A k, l \in DOMAIN to_process :
             k < l => to_process[k][2] < to_process[l][2])
    /\ [](pc = "batch" =>
             /\ i % batch_size = 0
             /\ preprocessed = PathsBefore(i))
    /\ [](Stage(pc) \in {4, 5, 6} => preprocessed = WorkPaths)
    /\ [](Stage(pc) = 3 =>
             /\ \A c \in inferCalls : c[1] % batch_size = 0 /\ c[1] < Len(to_process)
             /\ Cardinality({c[1] : c \in inferCalls}) = Cardinality(inferCalls))

\* A work list of two entries has been handed over in two batches of one.
C30_Witness ==
    /\ pc = "batch"
    /\ batch_size = 1
    /\ Len(to_process) = 2
    /\ i = 2
    /\ preprocessed = WorkPaths
    /\ Cardinality(inferCalls) = 2

\* ------------------------------------------- one batch, item by item ----
\* The body of the loop for one batch (lines 352-392), one item and one row
\* at a time.  An image is stood for by its path; row j of the output of
\* session.run is the row of the j-th image of the stacked array.
InitBatch ==
    /\ call \in {[step |-> "preprocess", batch |-> ScanOf(ids), bad |-> bad,
                   k |-> 1, batch_images |-> <<>>, valid_cards |-> <<>>,
                   failed |-> 0, outputs |-> <<>>, j |-> 1,
                   before |-> DictOver(S), embeddings |-> DictOver(S)] :
                     ids \in UNION {[1..n -> Ids] : n \in 1..MaxBatch},
                     bad \in SUBSET (1..MaxBatch),
                     S \in SUBSET Ids}
    /\ call.bad \subseteq DOMAIN call.batch
    /\ OnlyCall

\* Mutant: the identifier is appended before preprocess_image is tried.
PreprocessItemIdFirst ==
    /\ call.step = "preprocess"
    /\ call.k <= Len(call.batch)
    /\ LET card_id == call.batch[call.k][1]
           path == call.batch[call.k][2]
       IN  IF path \in call.bad
           THEN call' = [call EXCEPT !.k = @ + 1, !.failed = @ + 1,
                                    !.valid_cards = Append(@, card_id)]
           ELSE call' = [call EXCEPT !.k = @ + 1,
                                    !.batch_images = Append(@, path),
                                    !.valid_cards = Append(@, card_id)]
    /\ UNCHANGED others

\* for card_id, path in batch: try preprocess_image, append the image and the
\* identifier; except: failed += 1
PreprocessItem ==
    /\ call.step = "preprocess"
    /\ call.k <= Len(call.batch)
    /\ LET card_id == call.batch[call.k][1]
           path == call.batch[call.k][2]
       IN  IF path \in call.bad
           THEN call' = [call EXCEPT !.k = @ + 1, !.failed = @ + 1]
           ELSE call' = [call EXCEPT !.k = @ + 1,
                                    !.batch_images = Append(@, path),
                                    !.valid_cards = Append(@, card_id)]
    /\ UNCHANGED others

\* if not batch_images: continue
SkipBatch ==
    /\ call.step = "preprocess"
    /\ call.k > Len(call.batch)
    /\ call.batch_images = <<>>
    /\ call' = [call EXCEPT !.step = "skipped"]
    /\ UNCHANGED others

\* batch_array = np.vstack(batch_images); outputs = session.run(...), pooled
\* and normalized row by row
RunSession ==
    /\ call.step = "preprocess"
    /\ call.k > Len(call.batch)
    /\ call.batch_images # <<>>
    /\ call' = [call EXCEPT !.step = "store",
                            !.outputs = [r \in DOMAIN call.batch_images |->
                                           OutputRow(call.batch_images[r])]]
    /\ UNCHANGED others

\* session.run raises: failed += len(valid_cards)
RunSessionRaises ==
    /\ call.step = "preprocess"
    /\ call.k > Len(call.batch)
    /\ call.batch_images # <<>>
    /\ call' = [call EXCEPT !.step = "lost",
                            !.failed = @ + Len(call.valid_cards)]
    /\ UNCHANGED others

\* for j, card_id in enumerate(valid_cards): embeddings[card_id] = outputs[j]
StoreRow ==
    /\ call.step = "store"
    /\ call.j <= Len(call.valid_cards)
    /\ call' = [call EXCEPT
                  !.embeddings = DictSet(@, call.valid_cards[call.j],
                                         call.outputs[call.j]),
                  !.j = @ + 1,
                  !.step = IF call.j = Len(call.valid_cards)
                           THEN "stored" ELSE "store"]
    /\ UNCHANGED others

NextBatch ==
    \/ PreprocessItem
    \/ SkipBatch
    \/ RunSession
    \/ RunSessionRaises
    \/ StoreRow

SpecBatch == InitBatch /\ [][NextBatch]_vars

\* --------------------------------------------------------------- C31 ----
\* The paths of the items of the batch that carry identifier id and did not
\* fail preprocessing.
OwnImages(id) ==
    {call.batch[k][2] : k \in {x \in DOMAIN call.batch :
                                 call.batch[x][1] = id /\ call.batch[x][2] \notin call.bad}}
BatchSteps == {"preprocess", "skipped", "store", "lost", "stored"}

\* C31: while a batch is handled the list of images and the list of
\* identifiers have the same length and their j-th entries are the path and
\* the identifier of one surviving item of the batch, in batch order; row j
\* of the output is the row of the j-th image; and every vector in the
\* mapping is the one it held before the batch or the output row of an image
\* of its own identifier, the latter for every row stored so far.
C31_RowsStayAligned ==
    call.step \in BatchSteps =>
        /\ Len(call.batch_images) = Len(call.valid_cards)
        /\ \A r \in DOMAIN call.valid_cards :
              call.batch_images[r] \in OwnImages(call.valid_cards[r])
        /\ \A r, t \in DOMAIN call.batch_images :
              r < t => call.batch_images[r] < call.batch_images[t]
        /\ \A r \in DOMAIN call.outputs :
              call.outputs[r] = OutputRow(call.batch_images[r])
        /\ \A id \in Keys(call.embeddings) :
              \/ /\ id \in Keys(call.before)
                 /\ Get(call.embeddings, id) = Get(call.before, id)
              \/ \E path \in OwnImages(id) :
                    Get(call.embeddings, id) = OutputRow(path)
        /\ call.step \in {"store", "stored"} =>
              \A r \in 1..(call.j - 1) :
                 \E path \in OwnImages(call.valid_cards[r]) :
                    Get(call.embeddings, call.valid_cards[r]) = OutputRow(path)

\* The first item of a batch of two failed preprocessing; the second one, of
\* another identifier, was stored from row 0 of the output with the row of
\* its own image.
C31_Witness ==
    /\ call.step = "stored"
    /\ call.batch = <<<<1, 1>>, <<2, 2>>>>
    /\ call.bad = {1}
    /\ call.valid_cards = <<2>>
    /\ call.batch_images = <<2>>
    /\ call.before = <<>>
    /\ call.embeddings = <<[id |-> 2, vec |-> OutputRow(2)]>>

\* --------------------------------------------------------------- C32 ----
\* The run has loaded the checkpoint and the process is alive.
AfterLoadPoint == Stage(pc) \in {3, 4, 5, 6}
\* The checkpoint file holds a whole mapping.
Persisted == ckptFile.st = "ok"

\* C32 as stated: at every point of a run after the load, every identifier
\* of the checkpoint file is in the in-memory mapping with the same vector.
C32_PersistedIsSubMapping ==
    (AfterLoadPoint /\ Persisted) =>
        \A id \in Keys(ckptFile.data) :
            /\ id \in Keys(embeddings)
            /\ Get(embeddings, id) = Get(ckptFile.data, id)

\* C32: at every point of a run after the load, every identifier of the
\* checkpoint file is in the in-memory mapping, with the same vector unless
\* two scanned files have that identifier and this run has merged one of them
\* since; then the vector in memory is the row of one of the merged images
\* of that identifier, and the file holds the row of another one.
C32_PersistedKeysInMemory ==
    (AfterLoadPoint /\ Persisted) =>
        \A id \in Keys(ckptFile.data) :
            /\ id \in Keys(embeddings)
            /\ \/ Get(embeddings, id) = Get(ckptFile.data, id)
               \/ /\ id \in DuplicatedIds
                  /\ id \notin Keys(loaded)
                  /\ \E p, r \in PathsOf(id) \cap merged :
                        /\ p # r
                        /\ Get(embeddings, id) = OutputRow(p)
                        /\ Get(ckptFile.data, id) = OutputRow(r)

\* After a flush of one entry a second identifier has been merged: the file
\* holds one of the two entries of the memory.
C32_Witness ==
    /\ pc = "checkpoint"
    /\ Persisted
    /\ Len(ckptFile.data) = 1
    /\ Len(embeddings) = 2
    /\ loaded = <<>>
    /\ \A id \in Keys(ckptFile.data) :
          Get(embeddings, id) = Get(ckptFile.data, id)

====
